---- MODULE Spec2Model ----
(***************************************************************************)
(* Model of the knowledge-base sync engine (tools/kb_sync.py), its entry   *)
(* points (the kb_sync command line and the MCP tools of mcp_server.py),    *)
(* the remote document store and the vector index it writes to, and the    *)
(* identity-map file kb_sync_mapping.json.                                  *)
(*                                                                         *)
(* A path is <<directory, stem>> (the file is directory/stem.md).  A slug  *)
(* is the sequence of its "/"-separated segments, a URL the sequence of    *)
(* its path segments.  The remote store and the vector index are the       *)
(* environment: every call to them may succeed or fail, and the slug of a  *)
(* new record is chosen by the remote store (the payload carries none).    *)
(*                                                                         *)
(* Spec is the sync engine.  ToolSpec is the map file under its other      *)
(* readers and writers: rebuild_mapping.py, cleanup_duplicates.py,         *)
(* save_mapping_file step by step, export_redirects_csv.  ChunkSpec and    *)
(* SearchSpec apply chunk_document and search_knowledge_core               *)
(* (tools/pinecone_tool.py) to bounded inputs.  RebuildSpec is             *)
(* rebuild_mapping.py run on its own, StaleSpec the sync engine started    *)
(* with a map file that names a record the remote store no longer holds.   *)
(* ParseSpec, SlugSpec and LinkSpec apply parse_frontmatter,               *)
(* generate_slug, and convert_wikilink_to_url with slug_from_filename      *)
(* (tools/kb_sync.py) to bounded texts.                                    *)
(***************************************************************************)
EXTENDS Integers, Sequences, FiniteSets, TLC

\* ------------------------------------------------------------------ bounds
MaxEvents == 3      \* invocations of an entry point and file together
MaxRecords == 2     \* records the remote store holds
MaxLines == 5       \* lines of a body handed to chunk_document
MaxMatches == 3     \* matches the vector index returns to a query
MaxToolRuns == 1    \* runs of the maintenance tools and of save_mapping_file
MaxChars == 4      \* characters of a text handed to a slug or link function
MaxContentLines == 5 \* lines of a file handed to parse_frontmatter

\* ------------------------------------------------------------------ domains
Paths == {<<"AI", "intro">>, <<"SEO", "basics">>, <<"AI", "index">>}
Titles == {"Intro", "Primer"}
NoSlug == <<>>
FmSlugs == {NoSlug, <<"intro">>}
RemoteSlugs == {<<"intro">>, <<"intro-2">>, <<"primer">>}
Filters == {"", "AI"}
NoId == 0
None == "none"

LowerName(s) ==
    CASE s = "AI" -> "ai"
      [] s = "SEO" -> "seo"
      [] OTHER -> s

\* generate_path_slug: the cleaned directory parts, then the filename slug
generate_path_slug(p) == <<LowerName(p[1]), LowerName(p[2])>>

\* should_sync_file: not index.md, not folder/folder.md, no part starting with "."
HiddenNames == {".obsidian", ".trash"}
should_sync_file(p) ==
    /\ p[2] # "index"
    /\ p[2] # p[1]
    /\ p[1] \notin HiddenNames
    /\ p[2] \notin HiddenNames

\* sync_all's filter: relative.startswith(filter_path); an empty filter is no filter
InFilter(p, flt) == flt = "" \/ p[1] = flt

\* ------------------------------------------------------------------ state
VARIABLES
    files,      \* path -> [title, fmslug, body, tags, seo]: the markdown files
    mapfile,    \* kb_sync_mapping.json: [state, map]
    env,        \* the remote store: [remote, nextId] (the records [id, slug,
                \* title] and the ID the next record gets)
    pc,         \* "idle", or "batch" while sync_all runs
    batch,      \* the running sync_all: [entry, dry, flt, em, todo, results, prevCreated]
    clock,      \* the time: advanced by every invocation and every edit
    lastCall,   \* the last sync_file call: [path, dry, id, ops, result], or None
    fin,        \* the batch that has just returned, or None
    killed,     \* the batch that has just been terminated, or None
    chunking,   \* a chunk_document call: [body, done, chunks]
    search,     \* a search_knowledge_core call: [cfg, fail, matches, done, result]
    tool,       \* a run of a maintenance tool on the map file and the remote store
    textCall    \* a call of a text function: [input, n, first, second]

vars == <<files, mapfile, env, pc, batch, clock, lastCall, fin, killed, chunking, search, tool,
          textCall>>
syncVars == <<files, mapfile, env, pc, batch, clock, lastCall, fin, killed>>

Range(s) == {s[i] : i \in DOMAIN s}

\* ------------------------------------------------------------------ remote store
NoPost == [id |-> NoId, slug |-> NoSlug, title |-> ""]
Ids(E) == {r.id : r \in E.remote}
RecordOf(E, id) == CHOOSE r \in E.remote : r.id = id
Op(kind, id, slug, ok) == [op |-> kind, id |-> id, slug |-> slug, ok |-> ok]

\* WordPressClient.get_post_by_slug: the first record of a 200 answer, None for
\* an empty answer and for any other status; the request itself may raise.
get_post_by_slug(E, slug) ==
    LET hits == {r \in E.remote : r.slug = slug}
    IN  {[raise |-> TRUE, ok |-> FALSE, post |-> NoPost],
         [raise |-> FALSE, ok |-> FALSE, post |-> NoPost]}
        \cup (IF hits = {}
               THEN {[raise |-> FALSE, ok |-> TRUE, post |-> NoPost]}
               ELSE {[raise |-> FALSE, ok |-> TRUE, post |-> r] : r \in hits})

\* WordPressClient.create_post: a new record with the next ID and a slug the
\* remote store chooses (one no other record has), or an exception (status >= 400).
create_post(E, title) ==
    {[ok |-> FALSE, post |-> NoPost, env |-> E]}
    \cup {[ok |-> TRUE,
           post |-> [id |-> E.nextId, slug |-> s, title |-> title],
           env |-> [E EXCEPT !.remote = @ \cup {[id |-> E.nextId, slug |-> s, title |-> title]},
                             !.nextId = @ + 1]]
          : s \in {x \in RemoteSlugs : /\ Cardinality(E.remote) < MaxRecords
                                        /\ \A r \in E.remote : r.slug # x}}

\* a bug: an update of an ID the remote store does not hold makes a new record
update_post_CreateIfMissing(E, post_id, title) ==
    {[ok |-> FALSE, post |-> NoPost, env |-> E]}
    \cup (LET old == IF post_id \in Ids(E)
                     THEN CHOOSE r \in E.remote : r.id = post_id
                     ELSE [id |-> E.nextId, slug |-> <<"primer">>, title |-> title]
               new == [old EXCEPT !.title = title]
           IN  {[ok |-> TRUE, post |-> new,
                 env |-> [E EXCEPT !.remote = (@ \ {old}) \cup {new},
                                   !.nextId = IF post_id \in Ids(E) THEN @ ELSE @ + 1]]})

\* a bug: the update replaces the record by a new one under a new ID
update_post_Recreate(E, post_id, title) ==
    {[ok |-> FALSE, post |-> NoPost, env |-> E]}
    \cup (IF post_id \in Ids(E)
          THEN LET old == RecordOf(E, post_id)
                   new == [old EXCEPT !.title = title, !.id = E.nextId]
               IN  {[ok |-> TRUE, post |-> new,
                     env |-> [E EXCEPT !.remote = (@ \ {old}) \cup {new}, !.nextId = @ + 1]]}
          ELSE {})

\* WordPressClient.update_post: the record with that ID gets the payload (its
\* slug is not in the payload and stays), or an exception (status >= 400, as
\* for an ID the remote store does not hold).
update_post(E, post_id, title) ==
    {[ok |-> FALSE, post |-> NoPost, env |-> E]}
    \cup (IF post_id \in Ids(E)
          THEN LET old == RecordOf(E, post_id)
                   new == [old EXCEPT !.title = title]
               IN  {[ok |-> TRUE, post |-> new,
                     env |-> [E EXCEPT !.remote = (@ \ {old}) \cup {new}]]}
          ELSE {})

\* WordPressClient.get_or_create_tag: the ID of the term found (a 200 answer
\* that holds it) or created, None when neither request succeeds; a request
\* may raise.  Gives [ret, ops].
get_or_create_tag ==
    LET get(ok) == Op("tag_get", NoId, NoSlug, ok)
        post(ok) == Op("tag_create", NoId, NoSlug, ok)
    IN  {[ret |-> "raise", ops |-> <<get(FALSE)>>],
         [ret |-> "none", ops |-> <<get(FALSE), post(FALSE)>>],
         [ret |-> "id", ops |-> <<get(TRUE)>>],
         [ret |-> "id", ops |-> <<get(TRUE), post(TRUE)>>]}

\* WordPressClient.update_rankmath_meta: True on status 200, False otherwise
\* (exceptions are caught inside).
update_rankmath_meta(post_id) == {TRUE, FALSE}

\* upsert_to_knowledge_core: TRUE for the "updated" message, FALSE for the
\* "upsert failed" message (every exception is caught inside and turned into
\* the returned message).
upsert_to_knowledge_core(doc_id) == {TRUE, FALSE}

\* ------------------------------------------------------------------ identity map
NoEntry == [post_id |-> NoId, slug |-> NoSlug, url |-> <<>>, title |-> "", last_synced |-> 0]
EmptyMap == [p \in {} |-> NoEntry]

\* a bug: the file is never read
LoadMapping_AlwaysEmpty(mf) == EmptyMap

\* the map loaded from the file: a missing or corrupt file gives the empty map
LoadMapping(mf) == IF mf.state = "ok" THEN mf.map ELSE EmptyMap

\* a bug: the map is not consulted
ExistingPostId_Ignored(em, p) == NoId

\* existing_mapping[rel_path].get("post_id") when the path has an entry
ExistingPostId(em, p) == IF p \in DOMAIN em THEN em[p].post_id ELSE NoId

\* post.get("link", ...): the permalink of a record, <site>/kb/<slug>/
Link(post) == <<"kb">> \o post.slug

\* url.split("/kb/")[-1].rstrip("/") if "/kb/" in url else ""
SlugOfUrl(url) ==
    IF "kb" \in Range(url)
    THEN LET i == CHOOSE k \in DOMAIN url :
                      url[k] = "kb" /\ \A j \in DOMAIN url : url[j] = "kb" => j <= k
         IN  SubSeq(url, i + 1, Len(url))
    ELSE NoSlug

\* ------------------------------------------------------------------ sync_file
InitResult(p) ==
    [file |-> p, status |-> "pending", post_id |-> NoId, url |-> <<>>, title |-> "",
     slug |-> NoSlug, pinecone |-> None, rankmath |-> None]

\* frontmatter.get("slug") or generate_path_slug(file_path, KB_ROOT)
SlugOf(p, f) == IF f.fmslug # NoSlug THEN f.fmslug ELSE generate_path_slug(p)

Outcome(result, E, ops) == [result |-> result, env |-> E, ops |-> ops]

\* the except clause: status "error", whatever was set before stays
Raised(result, E, ops) == Outcome([result EXCEPT !.status = "error"], E, ops)

\* the tag loop: every tag of the file is resolved; a request that raises ends
\* the call, a tag that resolves to None is left out of the payload
TagStage(f, E) ==
    IF f.tags
    THEN {[raise |-> t.ret = "raise", env |-> E, ops |-> t.ops] : t \in get_or_create_tag}
    ELSE {[raise |-> FALSE, env |-> E, ops |-> <<>>]}

\* "Check if post exists": update by the mapped ID, else look the slug up and
\* update the record found, else create.  Gives [ok, status, post, env, ops].
WriteStage(p, f, em, E) ==
    LET existing_post_id == ExistingPostId(em, p)
        slug == SlugOf(p, f)
        upd(id, ops) ==
            {[ok |-> u.ok, status |-> "updated", post |-> u.post, env |-> u.env,
              ops |-> Append(ops, Op("update", id, NoSlug, u.ok))]
             : u \in update_post(E, id, f.title)}
        crt(ops) ==
            {[ok |-> c.ok, status |-> "created", post |-> c.post, env |-> c.env,
              ops |-> Append(ops, Op("create", c.post.id, NoSlug, c.ok))]
             : c \in create_post(E, f.title)}
    IN  IF existing_post_id # NoId
        THEN upd(existing_post_id, <<>>)
        ELSE UNION {
               LET ops == <<Op("lookup", l.post.id, slug, l.ok)>>
               IN  IF l.raise
                   THEN {[ok |-> FALSE, status |-> "pending", post |-> NoPost,
                          env |-> E, ops |-> ops]}
                   ELSE IF l.post # NoPost
                        THEN upd(l.post.id, ops)
                        ELSE crt(ops)
               : l \in get_post_by_slug(E, slug) }

\* after the record write: the result fields, the SEO metadata (non-fatal),
\* the vector-index upsert (its failure is only reported in result.pinecone)
AfterWrite(p, f, r0, w) ==
    LET r1 == [r0 EXCEPT !.status = w.status, !.post_id = w.post.id,
                         !.url = Link(w.post), !.title = f.title]
        seo == IF f.seo
               THEN {[rankmath |-> IF ok THEN "updated" ELSE "failed",
                      ops |-> Append(w.ops, Op("seo", w.post.id, NoSlug, ok))]
                     : ok \in update_rankmath_meta(w.post.id)}
               ELSE {[rankmath |-> None, ops |-> w.ops]}
    IN  {Outcome([r1 EXCEPT !.rankmath = s.rankmath,
                            !.pinecone = IF v THEN "ok" ELSE "failed"],
                 w.env,
                 Append(s.ops, Op("upsert", w.post.id, NoSlug, v)))
         : s \in seo, v \in upsert_to_knowledge_core(w.post.id)}

\* sync_file(file_path, wp_client, dry_run, existing_mapping): every way the
\* call can end, as [result, env, ops] (ops: the remote calls it issued)
sync_file(p, f, dry, em, E) ==
    LET r0 == InitResult(p)
    IN  {Raised(r0, E, <<>>)}
        \cup
        (IF ~f.body
         THEN {Outcome([r0 EXCEPT !.status = "skipped"], E, <<>>)}
         ELSE IF dry
         THEN {Outcome([r0 EXCEPT !.status = "dry_run", !.title = f.title,
                                  !.slug = SlugOf(p, f)], E, <<>>)}
         ELSE UNION {
                IF t.raise
                THEN {Raised(r0, t.env, t.ops)}
                ELSE UNION {
                       IF w.ok
                       THEN AfterWrite(p, f, r0, [w EXCEPT !.ops = t.ops \o @])
                       ELSE {Raised(r0, w.env, t.ops \o w.ops)}
                       : w \in WriteStage(p, f, em, t.env) }
                : t \in TagStage(f, E) })

\* ------------------------------------------------------------------ save_mapping_file
\* a bug: every result that is not skipped becomes a map entry
ShouldRecord_NotSkipped(result) == result.status # "skipped"

\* the results that become map entries
ShouldRecord(result) == result.status \in {"created", "updated"} /\ result.post_id # NoId

EntryOf(result, timestamp) ==
    [post_id |-> result.post_id, slug |-> SlugOfUrl(result.url), url |-> result.url,
     title |-> result.title, last_synced |-> timestamp]

\* a bug: the entry written replaces the map
MapPut_Alone(m, p, e) == [q \in {p} |-> e]

\* existing_mapping[rel_path] = {...}
MapPut(m, p, e) == [q \in DOMAIN m \cup {p} |-> IF q = p THEN e ELSE m[q]]

RECURSIVE ApplyResults(_, _, _)
ApplyResults(m, results, timestamp) ==
    IF results = <<>>
    THEN m
    ELSE LET r == Head(results)
         IN  ApplyResults(IF ShouldRecord(r) THEN MapPut(m, r.file, EntryOf(r, timestamp)) ELSE m,
                          Tail(results), timestamp)

\* save_mapping_file(results): reload the file, put the entries, write the file
save_mapping_file(results, mf, timestamp) ==
    [state |-> "ok", map |-> ApplyResults(LoadMapping(mf), results, timestamp)]

\* ------------------------------------------------------------------ chunk_document
\* A body is the sequence of its lines.  A line is a second-level heading
\* ("## A"), a blank line (""), or text (a third-level heading is text to the
\* pattern ^(## .+)$).
H2Lines == {"## A", "## B"}
BodyLines == H2Lines \cup {"", "text", "### C"}
IsH2(l) == l \in H2Lines
IsBlank(l) == l = ""

\* header.lstrip("# ").strip()
HeaderLabel(l) == IF l = "## A" THEN "A" ELSE IF l = "## B" THEN "B" ELSE l

RECURSIVE StripLead(_)
StripLead(ls) == IF ls # <<>> /\ IsBlank(Head(ls)) THEN StripLead(Tail(ls)) ELSE ls

RECURSIVE StripTrail(_)
StripTrail(ls) ==
    IF ls # <<>> /\ IsBlank(ls[Len(ls)]) THEN StripTrail(SubSeq(ls, 1, Len(ls) - 1)) ELSE ls

\* str.strip() on a block of lines: the blank lines at both ends go
Strip(ls) == StripTrail(StripLead(ls))

\* re.split(r'^(## .+)$', body, flags=re.MULTILINE): the text before the first
\* heading, then heading and following text in turn (2k+1 parts); a heading
\* part is the one-line block of the heading
RECURSIVE SplitH2(_, _)
SplitH2(ls, cur) ==
    IF ls = <<>>
    THEN <<cur>>
    ELSE IF IsH2(Head(ls))
         THEN <<cur, <<Head(ls)>>>> \o SplitH2(Tail(ls), <<>>)
         ELSE SplitH2(Tail(ls), Append(cur, Head(ls)))

\* the preamble (title, summary, concepts, tags, questions) is one block
Preamble == <<"preamble">>

Chunk(index, header, text) ==
    [chunk_index |-> index, section_header |-> header,
     content |-> Preamble \o text, raw_text |-> text]

\* a bug: the index of a section chunk is the position of its heading
ChunkIndex_ByHeading(chunks, i) == i \div 2

\* "chunk_index": len(chunks)
ChunkIndex(chunks, i) == Len(chunks)

\* for i in range(1, len(parts), 2): the heading parts[i] and its text
\* parts[i+1] (positions are 1-based here, so the headings are at 2, 4, ...)
RECURSIVE Sections(_, _, _)
Sections(parts, i, chunks) ==
    IF i > Len(parts)
    THEN chunks
    ELSE LET header == parts[i][1]
             section_body == IF i + 1 <= Len(parts) THEN Strip(parts[i + 1]) ELSE <<>>
         IN  IF section_body = <<>>
             THEN Sections(parts, i + 2, chunks)
             ELSE Sections(parts, i + 2,
                           Append(chunks, Chunk(ChunkIndex(chunks, i), HeaderLabel(header),
                                                <<header>> \o section_body)))

chunk_document(body) ==
    LET parts == SplitH2(body, <<>>)
        intro_text == Strip(parts[1])
        lead == IF intro_text # <<>> THEN <<Chunk(0, "Introduction", intro_text)>> ELSE <<>>
        chunks == Sections(parts, 2, lead)
    IN  IF chunks = <<>> /\ Strip(body) # <<>>
        THEN <<Chunk(0, "", Strip(body))>>
        ELSE chunks

NoChunking == [body |-> <<>>, done |-> FALSE, chunks |-> <<>>]

\* ------------------------------------------------------------------ search_knowledge_core
\* A vector ID is the sequence of its pieces around "-chunk-": "kb-1" is
\* <<"kb-1">>, "kb-1-chunk-0" is <<"kb-1", "0">>.  A score is in hundredths.
VectorIds == {<<"kb-1">>, <<"kb-1", "0">>, <<"kb-1", "1">>, <<"kb-2">>, <<"kb-3">>}
Scores == {50, 55, 62, 70, 91}
Matches == [id : VectorIds, score : Scores]

\* _load_search_config: the defaults (0.70 / 0.55), or the thresholds of config.yaml
SearchConfigs == {[high_threshold |-> 70, low_threshold |-> 55],
                  [high_threshold |-> 62, low_threshold |-> 62]}

\* match.id.rsplit("-chunk-", 1)[0]
base_id(id) == IF Len(id) = 1 THEN id ELSE SubSeq(id, 1, Len(id) - 1)

\* a bug: a later match of a document always replaces the earlier one
Better_Always(new, old) == TRUE

\* match.score > best_per_doc[base_id].score
Better(new, old) == new.score > old.score

\* best_per_doc: one match per base ID, in the order the base IDs first appear
RECURSIVE Dedup(_, _)
Dedup(matches, best) ==
    IF matches = <<>>
    THEN best
    ELSE LET m == Head(matches)
             at == {i \in DOMAIN best : base_id(best[i].id) = base_id(m.id)}
         IN  IF at = {}
             THEN Dedup(Tail(matches), Append(best, m))
             ELSE LET i == CHOOSE k \in at : TRUE
                  IN  Dedup(Tail(matches),
                            IF Better(m, best[i]) THEN [best EXCEPT ![i] = m] ELSE best)

\* a bug: a score equal to the high threshold is medium
Tier_StrictHigh(score, cfg) ==
    IF score < cfg.low_threshold THEN "discarded"
    ELSE IF score > cfg.high_threshold THEN "high" ELSE "medium"

\* if score < low_threshold: continue; if score >= high_threshold: high; else: medium
Tier(score, cfg) ==
    IF score < cfg.low_threshold THEN "discarded"
    ELSE IF score >= cfg.high_threshold THEN "high" ELSE "medium"

RECURSIVE Findings(_, _, _)
Findings(best, cfg, tier) ==
    IF best = <<>>
    THEN <<>>
    ELSE (IF Tier(Head(best).score, cfg) = tier THEN <<Head(best)>> ELSE <<>>)
         \o Findings(Tail(best), cfg, tier)

\* a bug: the report is returned whatever the tiers hold
ReportKind_AlwaysFound(high, medium) == "found"

\* if not high_findings and not medium_findings: "... none above confidence threshold"
ReportKind(high, medium) ==
    IF high = <<>> /\ medium = <<>> THEN "below_threshold" ELSE "found"

SearchResult(kind, high, medium, parts) ==
    [kind |-> kind, high |-> high, medium |-> medium, parts |-> parts]

\* search_knowledge_core(query): the string it returns, as the kind of message
\* ("unavailable", "none_found", "below_threshold", "found"), the findings of
\* each tier and the tier headers of the report
search_knowledge_core(cfg, fail, matches) ==
    IF fail
    THEN SearchResult("unavailable", <<>>, <<>>, <<>>)
    ELSE IF matches = <<>>
    THEN SearchResult("none_found", <<>>, <<>>, <<>>)
    ELSE LET best == Dedup(matches, <<>>)
             high == Findings(best, cfg, "high")
             medium == Findings(best, cfg, "medium")
             kind == ReportKind(high, medium)
         IN  IF kind = "below_threshold"
             THEN SearchResult(kind, <<>>, <<>>, <<>>)
             ELSE SearchResult(kind, high, medium,
                     (IF high # <<>> THEN <<"High-Confidence Results">> ELSE <<>>)
                     \o (IF medium # <<>> THEN <<"Medium-Confidence Results">> ELSE <<>>))

NoSearch == [cfg |-> [high_threshold |-> 70, low_threshold |-> 55], fail |-> FALSE,
             matches |-> <<>>, done |-> FALSE,
             result |-> SearchResult("none", <<>>, <<>>, <<>>)]

\* ------------------------------------------------------------------ rebuild_mapping
\* generate_slug(title) of the titles in use
generate_slug(t) == IF t = "Intro" THEN "intro" ELSE IF t = "Primer" THEN "primer" ELSE t

\* re.sub(r'-(\d+)$', '', slug) and re.search(r'-(\d+)$', slug)
HasNumSuffix(slug) == slug # <<>> /\ slug[Len(slug)] = "intro-2"
BaseSlug(slug) ==
    IF HasNumSuffix(slug) THEN [slug EXCEPT ![Len(slug)] = "intro"] ELSE slug

\* b.endswith("/" + a)
EndsWithSegments(b, a) ==
    /\ a # <<>>
    /\ Len(b) > Len(a)
    /\ SubSeq(b, Len(b) - Len(a) + 1, Len(b)) = a

\* build_file_index: the files kb_sync would take, in the order rglob gives them
IndexedFiles == <<<<"AI", "intro">>, <<"SEO", "basics">>>>

\* the first file of the index that satisfies a matcher, or no file
NoPath == <<>>
FirstIndexed(S) ==
    IF \E i \in DOMAIN IndexedFiles : IndexedFiles[i] \in S
    THEN IndexedFiles[CHOOSE i \in DOMAIN IndexedFiles :
                         /\ IndexedFiles[i] \in S
                         /\ \A j \in DOMAIN IndexedFiles : IndexedFiles[j] \in S => i <= j]
    ELSE NoPath

Matched(file, method) == [matched_file |-> file, match_method |-> method]

\* the files one matcher of match_posts_to_files accepts for a record; the
\* filename matcher accepts a file only when no other file has its name
Candidates(post, F, em, method) ==
    LET indexed == Range(IndexedFiles)
        byFilename == {p \in indexed : post.slug # <<>> /\ LowerName(p[2]) = post.slug[Len(post.slug)]}
    IN  CASE method = "mapping" ->
                {rel \in DOMAIN em : em[rel].post_id = post.id /\ rel \in DOMAIN F}
          [] method = "path_slug" ->
                {p \in indexed : generate_path_slug(p) = post.slug}
          [] method = "filename_slug" ->
                IF Cardinality(byFilename) = 1 THEN byFilename ELSE {}
          [] method = "partial_slug" ->
                {p \in indexed : \/ EndsWithSegments(generate_path_slug(p), post.slug)
                                 \/ generate_path_slug(p) = post.slug}
          [] method = "title_match" ->
                {p \in indexed : /\ post.title # ""
                                 /\ \/ generate_path_slug(p)[2] = generate_slug(post.title)
                                    \/ generate_path_slug(p) = <<generate_slug(post.title)>>}
          [] method = "frontmatter_slug" ->
                {p \in indexed : F[p].fmslug # NoSlug /\ F[p].fmslug = post.slug}

\* a bug: the title matcher is tried before the slug matchers
MatchPost_TitleFirst(post, F, em) ==
    LET at(method) == Candidates(post, F, em, method)
    IN  IF at("mapping") # {} THEN Matched(CHOOSE rel \in at("mapping") : TRUE, "mapping")
        ELSE IF at("title_match") # {} THEN Matched(FirstIndexed(at("title_match")), "title_match")
        ELSE IF at("path_slug") # {} THEN Matched(FirstIndexed(at("path_slug")), "path_slug")
        ELSE IF at("filename_slug") # {} THEN Matched(FirstIndexed(at("filename_slug")), "filename_slug")
        ELSE IF at("partial_slug") # {} THEN Matched(FirstIndexed(at("partial_slug")), "partial_slug")
        ELSE IF at("frontmatter_slug") # {}
             THEN Matched(FirstIndexed(at("frontmatter_slug")), "frontmatter_slug")
        ELSE Matched(NoPath, "none")

\* match_posts_to_files, for one record: the matchers in their order
MatchPost(post, F, em) ==
    LET at(method) == Candidates(post, F, em, method)
    IN  IF at("mapping") # {} THEN Matched(CHOOSE rel \in at("mapping") : TRUE, "mapping")
        ELSE IF at("path_slug") # {} THEN Matched(FirstIndexed(at("path_slug")), "path_slug")
        ELSE IF at("filename_slug") # {} THEN Matched(FirstIndexed(at("filename_slug")), "filename_slug")
        ELSE IF at("partial_slug") # {} THEN Matched(FirstIndexed(at("partial_slug")), "partial_slug")
        ELSE IF at("title_match") # {} THEN Matched(FirstIndexed(at("title_match")), "title_match")
        ELSE IF at("frontmatter_slug") # {}
             THEN Matched(FirstIndexed(at("frontmatter_slug")), "frontmatter_slug")
        ELSE Matched(NoPath, "none")

\* match_posts_to_files: the loop over the records, one result for each
RECURSIVE match_posts_to_files(_, _, _)
match_posts_to_files(posts, F, em) ==
    IF posts = {} THEN EmptyMap
    ELSE LET post == CHOOSE r \in posts : TRUE
         IN  (post :> MatchPost(post, F, em)) @@ match_posts_to_files(posts \ {post}, F, em)

MinId(S) == CHOOSE r \in S : \A q \in S : r.id <= q.id

\* sorted(...) of a set of record IDs
RECURSIVE Ascending(_)
Ascending(S) ==
    IF S = {} THEN <<>>
    ELSE LET least == CHOOSE i \in S : \A j \in S : i <= j
         IN  <<least>> \o Ascending(S \ {least})

\* sorted(...) of the relative paths and of the base slugs
SortedPaths == <<<<"AI", "index">>, <<"AI", "intro">>, <<"SEO", "basics">>>>
SortedSlugs == <<<<"intro">>, <<"intro-2">>, <<"primer">>>>

\* the IDs pick[key] gives for the keys of a sorted list, one after the other
RECURSIVE Appended(_, _, _)
Appended(keys, i, pick) ==
    IF i > Len(keys) THEN <<>> ELSE pick[keys[i]] \o Appended(keys, i + 1, pick)

\* to_delete of main, in the order of its appends: for each file matched by
\* several records all but the lowest ID; the unmatched records whose base
\* slug is the slug of a matched record; of the other unmatched records with
\* one base slug all but the lowest ID
ToDeleteList(posts, M) ==
    LET matched == {r \in posts : M[r].matched_file # NoPath}
        orphans == posts \ matched
        onFile(rel) == {r.id : r \in {q \in matched : M[q].matched_file = rel}}
        dupes == [rel \in Range(SortedPaths) |->
                    IF Cardinality(onFile(rel)) > 1 THEN Tail(Ascending(onFile(rel))) ELSE <<>>]
        matched_slugs == {r.slug : r \in matched}
        orphan_dupes == {r \in orphans : BaseSlug(r.slug) \in matched_slugs}
        unknown == orphans \ orphan_dupes
        onBase(base) == {r.id : r \in {q \in unknown : BaseSlug(q.slug) = base}}
        cluster == [base \in Range(SortedSlugs) |->
                      IF Cardinality(onBase(base)) > 1 THEN Tail(Ascending(onBase(base))) ELSE <<>>]
    IN  Appended(SortedPaths, 1, dupes)
        \o Ascending({r.id : r \in orphan_dupes})
        \o Appended(SortedSlugs, 1, cluster)

\* the records main asks the remote store to delete
ToDelete(posts, M) == Range(ToDeleteList(posts, M))

\* new_mapping: each matched file gets the lowest-ID record matched to it
NewMapping(posts, M, timestamp) ==
    LET matched == {r \in posts : M[r].matched_file # NoPath}
        best(rel) == MinId({r \in matched : M[r].matched_file = rel})
    IN  [rel \in {M[r].matched_file : r \in matched} |->
            LET post == best(rel)
            IN  [post_id |-> post.id, slug |-> post.slug, url |-> Link(post),
                 title |-> post.title, last_synced |-> timestamp]]

\* the flags of rebuild_mapping.py; without any, main sets analyze
Flags == {"analyze", "delete_dupes", "rebuild", "full"}
FlagSets == {{}, {"analyze"}, {"delete_dupes"}, {"rebuild"}, {"full"},
             {"analyze", "delete_dupes"}, {"analyze", "rebuild"}}
EffectiveArgs(args) == IF args = {} THEN {"analyze"} ELSE args

\* if to_delete and (args.delete_dupes or args.full)
DeleteGate(args) == "delete_dupes" \in args \/ "full" \in args

\* if args.rebuild or args.full
RebuildGate(args) == "rebuild" \in args \/ "full" \in args

\* the post IDs cleanup_duplicates.py deletes
CleanupIds == {2, 3}

\* the last load of the map file by a component, and the run of a tool
NoLoad == [valid |-> FALSE, who |-> "none", state |-> "missing", raised |-> FALSE]
NoMatching == [valid |-> FALSE, existing_mapping |-> EmptyMap, match_results |-> EmptyMap,
               to_delete |-> <<>>, rematched |-> EmptyMap]
NoTool == [who |-> "none", args |-> {}, pc |-> "idle", done |-> FALSE, raised |-> FALSE,
           requested |-> {}, wrote |-> FALSE, pending |-> EmptyMap, load |-> NoLoad,
           matching |-> NoMatching]

\* ------------------------------------------------------------------ text functions
\* A text is a sequence of characters. The characters in use: letters in both
\* cases, a digit, whitespace, underscore, dot, slash, hyphen, the en dash
\* (U+2013, written "EN_DASH"), another punctuation mark, and the two
\* separators of a wiki-link.
Chars == {"m", "d", "M", "1", " ", "_", ".", "/", "-", "EN_DASH", "!", "#", "|"}

\* str.lower()
Lower(c) == IF c = "M" THEN "m" ELSE c

\* the characters [a-z0-9\s-] keeps
Kept(c) == c \in {"m", "d", "1", " ", "-"}

\* s with the leading characters of S dropped
RECURSIVE LStrip(_, _)
LStrip(s, S) == IF s # <<>> /\ Head(s) \in S THEN LStrip(Tail(s), S) ELSE s

\* str.strip(S)
RECURSIVE RStrip(_, _)
RStrip(s, S) ==
    IF s # <<>> /\ s[Len(s)] \in S THEN RStrip(SubSeq(s, 1, Len(s) - 1), S) ELSE s
StripChars(s, S) == RStrip(LStrip(s, S), S)

\* re.sub(r'[S]+', '-', s): every run of characters of S becomes one hyphen
RECURSIVE Hyphenate(_, _)
Hyphenate(s, S) ==
    IF s = <<>> THEN <<>>
    ELSE IF Head(s) \in S THEN <<"-">> \o Hyphenate(LStrip(s, S), S)
    ELSE <<Head(s)>> \o Hyphenate(Tail(s), S)

\* a bug: generate_slug without the step that collapses runs of hyphens
kb_generate_slug_NoCollapse(t) ==
    LET dashed == [i \in DOMAIN t |->
                     IF Lower(t[i]) \in {"EN_DASH", ".", "/"} THEN "-" ELSE Lower(t[i])]
    IN  StripChars(Hyphenate(SelectSeq(dashed, Kept), {" ", "_"}), {"-"})

\* generate_slug of kb_sync.py: lower case; Unicode dashes, dots and slashes
\* to hyphens; everything but [a-z0-9\s-] removed; runs of whitespace and
\* underscores to one hyphen; runs of hyphens to one; hyphens stripped
kb_generate_slug(t) ==
    LET dashed == [i \in DOMAIN t |->
                     IF Lower(t[i]) \in {"EN_DASH", ".", "/"} THEN "-" ELSE Lower(t[i])]
        spaced == Hyphenate(SelectSeq(dashed, Kept), {" ", "_"})
    IN  StripChars(Hyphenate(spaced, {"-"}), {"-"})

\* re.sub(r'^[0-9]+[_-]', '', s)
StripNumericPrefix(s) ==
    LET rest == LStrip(s, {"1"})
    IN  IF Len(rest) < Len(s) /\ rest # <<>> /\ Head(rest) \in {"_", "-"}
        THEN Tail(rest) ELSE s

\* str.replace('.md', '')
RECURSIVE RemoveMd(_)
RemoveMd(s) ==
    IF s = <<>> THEN <<>>
    ELSE IF Len(s) >= 3 /\ SubSeq(s, 1, 3) = <<".", "m", "d">> THEN RemoveMd(SubSeq(s, 4, Len(s)))
    ELSE <<Head(s)>> \o RemoveMd(Tail(s))

slug_from_filename(filename) == kb_generate_slug(StripNumericPrefix(RemoveMd(filename)))

\* s.split(c, 1)[0] and s.split(c)[-1]
BeforeFirst(s, c) ==
    IF \E i \in DOMAIN s : s[i] = c
    THEN SubSeq(s, 1, (CHOOSE i \in DOMAIN s : s[i] = c /\ \A j \in 1..(i - 1) : s[j] # c) - 1)
    ELSE s
AfterLast(s, c) ==
    IF \E i \in DOMAIN s : s[i] = c
    THEN SubSeq(s, (CHOOSE i \in DOMAIN s : s[i] = c /\ \A j \in (i + 1)..Len(s) : s[j] # c) + 1,
                Len(s))
    ELSE s

\* convert_wikilink_to_url: the target of [[target#heading|display]], cut down
\* to its last path segment
WikilinkTarget(full_match) == AfterLast(BeforeFirst(BeforeFirst(full_match, "|"), "#"), "/")

\* convert_wikilink_to_url: the slug it puts into /kb/<slug>/
WikilinkSlug(full_match) ==
    LET target == WikilinkTarget(full_match)
        n == Len(target)
        stem == IF n >= 3 /\ <<target[n - 2], Lower(target[n - 1]), Lower(target[n])>> = <<".", "m", "d">>
                THEN SubSeq(target, 1, n - 3) ELSE target
        lower == [i \in DOMAIN stem |-> Lower(stem[i])]
        kept == SelectSeq(StripNumericPrefix(lower), Kept)
    IN  StripChars(Hyphenate(Hyphenate(kept, {" ", "_"}), {"-"}), {"-"})

\* The lines of a markdown file: delimiter lines with and without trailing
\* whitespace, a YAML comment with three hyphens in it, a key-value line, a
\* line of plain text, a line YAML cannot parse, and the empty line.
ContentLines == {"---", "--- ", "# --- Section ---", "title: Intro", "text", "a: [", ""}

\* a bug: any line with three hyphens in it is a delimiter
IsDelimiter_Contains(l) == l \in {"---", "--- ", "# --- Section ---"}

\* re.match(r'^---\s*$', line)
IsDelimiter(l) == l \in {"---", "--- "}

\* yaml.safe_load of a block of these lines: a mapping, nothing (None), a
\* plain scalar (a str), or a YAMLError. A block with the unclosed flow
\* sequence, with plain text next to a key, or with two plain scalars
\* separated by a comment has no parse.
yaml_safe_load(block) ==
    LET has(l) == \E i \in DOMAIN block : block[i] = l
        split == \E i, j, k \in DOMAIN block :
                    /\ i < j /\ j < k
                    /\ block[i] = "text" /\ block[j] = "# --- Section ---" /\ block[k] = "text"
    IN  IF has("a: [") \/ (has("text") /\ has("title: Intro")) \/ split
        THEN [kind |-> "error", keys |-> {}]
        ELSE IF has("text") THEN [kind |-> "scalar", keys |-> {}]
        ELSE IF has("title: Intro") THEN [kind |-> "mapping", keys |-> {"title"}]
        ELSE [kind |-> "none", keys |-> {}]

\* '\n'.join(lines).strip(): blank lines at both ends go, and the whitespace
\* at the end of the last line
TrimLines(ls) ==
    LET s == Strip(ls)
    IN  IF s # <<>> /\ s[Len(s)] = "--- " THEN [s EXCEPT ![Len(s)] = "---"] ELSE s

\* what parse_frontmatter returns: (frontmatter, body), with the place of the
\* closing delimiter (0 for none) and the lines handed to YAML
Parsed(frontmatter, body, end_index, frontmatter_lines) ==
    [frontmatter |-> frontmatter, body |-> body, end_index |-> end_index,
     frontmatter_lines |-> frontmatter_lines]
EmptyDict == [kind |-> "mapping", keys |-> {}]

parse_frontmatter(content) ==
    IF ~IsDelimiter(content[1])
    THEN Parsed(EmptyDict, content, 0, <<>>)
    ELSE LET closing == {i \in 2..Len(content) : IsDelimiter(content[i])}
         IN  IF closing = {}
             THEN Parsed(EmptyDict, content, 0, <<>>)
             ELSE LET end_index == CHOOSE i \in closing : \A j \in closing : i <= j
                      frontmatter_lines == SubSeq(content, 2, end_index - 1)
                      body == TrimLines(SubSeq(content, end_index + 1, Len(content)))
                      loaded == yaml_safe_load(frontmatter_lines)
                  IN  IF loaded.kind = "error"
                      THEN Parsed(EmptyDict, content, end_index, frontmatter_lines)
                      ELSE IF loaded.kind = "none"
                      THEN Parsed(EmptyDict, body, end_index, frontmatter_lines)
                      ELSE Parsed(loaded, body, end_index, frontmatter_lines)

\* sync_file from the parse to the first frontmatter.get: SKIPPED for an empty
\* body, an AttributeError (the file ends ERROR) for metadata that is no
\* mapping, else the sync goes on
AfterParse(parsed) ==
    IF Strip(parsed.body) = <<>> THEN "skipped"
    ELSE IF parsed.frontmatter.kind # "mapping" THEN "error"
    ELSE "goes on"

\* no text function has been called
NoText == [input |-> <<>>, n |-> 0, first |-> <<>>, second |-> <<>>]

\* ------------------------------------------------------------------ entry points
FileAttrs == [title : Titles, fmslug : FmSlugs, body : BOOLEAN, tags : BOOLEAN, seo : BOOLEAN]

NoBatch == [dry |-> FALSE, flt |-> "", em |-> EmptyMap,
            before |-> [state |-> "missing", map |-> EmptyMap],
            todo |-> {}, results |-> <<>>, prevCreated |-> {}]
NoCall == [valid |-> FALSE, path |-> <<>>, dry |-> FALSE, entry |-> NoEntry,
           file |-> [title |-> "", fmslug |-> NoSlug, body |-> FALSE, tags |-> FALSE, seo |-> FALSE],
           hits |-> {}, ops |-> <<>>, result |-> InitResult(<<>>)]
NoFin == [valid |-> FALSE, entry |-> None, dry |-> FALSE, flt |-> "", em |-> EmptyMap,
          before |-> [state |-> "missing", map |-> EmptyMap], results |-> <<>>, prevCreated |-> {}]
NoKilled == [valid |-> FALSE, dry |-> FALSE, results |-> <<>>]

CallRecord(p, dry, em, E, out) ==
    [valid |-> TRUE, path |-> p, dry |-> dry,
     entry |-> IF p \in DOMAIN em THEN em[p] ELSE NoEntry,
     file |-> files[p], hits |-> {r.id : r \in {x \in E.remote : x.slug = SlugOf(p, files[p])}},
     ops |-> out.ops, result |-> out.result]

CreatedIn(results) == {results[i].file : i \in {j \in DOMAIN results : results[j].status = "created"}}

\* the files sync_all processes: every *.md under the root that passes the
\* filter and should_sync_file
Scope(flt) == {p \in Paths : InFilter(p, flt) /\ should_sync_file(p)}

\* what the callers of sync_all read of a result (the rest is only printed)
Summary(result) ==
    [file |-> result.file, status |-> result.status, post_id |-> result.post_id,
     url |-> result.url, title |-> result.title]

\* a bug: an ERROR result ends the loop
NextTodo_AbortOnError(todo, p, result) == IF result.status = "error" THEN {} ELSE todo \ {p}

\* the loop of sync_all goes on to the next file whatever the result was
NextTodo(todo, p, result) == todo \ {p}

\* the files of the knowledge base at the start
InitFiles ==
    [p \in Paths |->
        IF p = <<"AI", "intro">>
        THEN [title |-> "Intro", fmslug |-> NoSlug, body |-> TRUE, tags |-> TRUE, seo |-> FALSE]
        ELSE IF p = <<"SEO", "basics">>
        THEN [title |-> "Primer", fmslug |-> <<"intro">>, body |-> TRUE, tags |-> FALSE, seo |-> TRUE]
        ELSE [title |-> "Intro", fmslug |-> NoSlug, body |-> TRUE, tags |-> FALSE, seo |-> FALSE]]

\* no sync has run: no map file, an empty remote store
SyncInit ==
    /\ files = InitFiles
    /\ mapfile = [state |-> "missing", map |-> EmptyMap]
    /\ env = [remote |-> {}, nextId |-> 1]
    /\ pc = "idle"
    /\ batch = NoBatch
    /\ clock = 0
    /\ lastCall = NoCall
    /\ fin = NoFin
    /\ killed = NoKilled

Init ==
    /\ SyncInit
    /\ chunking = NoChunking
    /\ search = NoSearch
    /\ tool = NoTool
    /\ textCall = NoText

\* sync_all(dry_run, filter_path) is entered: the map is loaded, the files are
\* enumerated.  sync_all does not depend on its caller; which caller it
\* returns to is resolved when it returns (CliFinish, SyncKbFolderFinish,
\* PreviewSyncFinish).
StartBatch ==
    /\ pc = "idle"
    /\ clock < MaxEvents
    /\ pc' = "batch"
    /\ clock' = clock + 1
    /\ \E dry \in BOOLEAN, flt \in Filters :
          batch' = [dry |-> dry, flt |-> flt, em |-> LoadMapping(mapfile),
                    before |-> mapfile, todo |-> Scope(flt), results |-> <<>>,
                    prevCreated |-> IF fin.valid /\ ~fin.dry THEN CreatedIn(fin.results) ELSE {}]
    /\ lastCall' = NoCall
    /\ fin' = NoFin
    /\ killed' = NoKilled
    /\ UNCHANGED <<files, mapfile, env, chunking, search, tool, textCall>>

\* one iteration of sync_all's loop: sync_file on the next file
SyncNext ==
    /\ pc = "batch"
    /\ \E p \in batch.todo :
          \E out \in sync_file(p, files[p], batch.dry, batch.em, env) :
             /\ env' = out.env
             /\ batch' = [batch EXCEPT !.todo = NextTodo(@, p, out.result),
                                       !.results = Append(@, Summary(out.result))]
             /\ lastCall' = CallRecord(p, batch.dry, batch.em, env, out)
    /\ UNCHANGED <<files, mapfile, pc, clock, fin, killed, chunking, search, tool, textCall>>

FinRecord(entry) ==
    [valid |-> TRUE, entry |-> entry, dry |-> batch.dry, flt |-> batch.flt,
     em |-> batch.em, before |-> batch.before, results |-> batch.results,
     prevCreated |-> batch.prevCreated]

\* sync_all returned to the command line (python kb_sync.py [--dry-run]
\* [--filter F]): the summary, then save_mapping_file(results)
CliFinish ==
    /\ pc = "batch"
    /\ batch.todo = {}
    /\ mapfile' = save_mapping_file(batch.results, mapfile, clock)
    /\ fin' = FinRecord("cli")
    /\ pc' = "idle"
    /\ batch' = NoBatch
    /\ lastCall' = NoCall
    /\ UNCHANGED <<files, env, clock, killed, chunking, search, tool, textCall>>

\* sync_all(dry_run=False) returned to the sync_kb_folder tool: only the report
SyncKbFolderFinish ==
    /\ pc = "batch"
    /\ ~batch.dry
    /\ batch.todo = {}
    /\ fin' = FinRecord("sync_kb_folder")
    /\ pc' = "idle"
    /\ batch' = NoBatch
    /\ lastCall' = NoCall
    /\ UNCHANGED <<files, mapfile, env, clock, killed, chunking, search, tool, textCall>>

\* sync_all(dry_run=True) returned to the preview_sync tool: only the report
PreviewSyncFinish ==
    /\ pc = "batch"
    /\ batch.dry
    /\ batch.todo = {}
    /\ fin' = FinRecord("preview_sync")
    /\ pc' = "idle"
    /\ batch' = NoBatch
    /\ lastCall' = NoCall
    /\ UNCHANGED <<files, mapfile, env, clock, killed, chunking, search, tool, textCall>>

\* the process is terminated while sync_all runs: what it held in memory is lost
Terminate ==
    /\ pc = "batch"
    /\ killed' = [valid |-> TRUE, dry |-> batch.dry, results |-> batch.results]
    /\ pc' = "idle"
    /\ batch' = NoBatch
    /\ fin' = NoFin
    /\ lastCall' = NoCall
    /\ UNCHANGED <<files, mapfile, env, clock, chunking, search, tool, textCall>>

\* sync_file_by_path (kb_sync.py --file P [--dry-run], the sync_single_file tool):
\* the map is loaded, sync_file runs on the path, nothing is saved
SyncFileByPath ==
    /\ pc = "idle"
    /\ clock < MaxEvents
    /\ \E p \in Paths, dry \in BOOLEAN :
          \E out \in sync_file(p, files[p], dry, LoadMapping(mapfile), env) :
             /\ env' = out.env
             /\ lastCall' = CallRecord(p, dry, LoadMapping(mapfile), env, out)
    /\ clock' = clock + 1
    /\ fin' = NoFin
    /\ killed' = NoKilled
    /\ UNCHANGED <<files, mapfile, pc, batch, chunking, search, tool, textCall>>

\* the author edits a file that sync_all takes, between two runs: a new title,
\* a slug override set or removed, or the body emptied or filled
EditFile ==
    /\ pc = "idle"
    /\ clock < MaxEvents
    /\ \E p \in Scope("") :
          \E f \in {[files[p] EXCEPT !.title = t] : t \in Titles}
                  \cup {[files[p] EXCEPT !.fmslug = x] : x \in FmSlugs}
                  \cup {[files[p] EXCEPT !.body = ~@]} :
             /\ f # files[p]
             /\ files' = [files EXCEPT ![p] = f]
    /\ clock' = clock + 1
    /\ lastCall' = NoCall
    /\ fin' = NoFin
    /\ killed' = NoKilled
    /\ UNCHANGED <<mapfile, env, pc, batch, chunking, search, tool, textCall>>

Next ==
    \/ StartBatch
    \/ SyncNext
    \/ CliFinish
    \/ SyncKbFolderFinish
    \/ PreviewSyncFinish
    \/ Terminate
    \/ SyncFileByPath
    \/ EditFile

Spec == Init /\ [][Next]_vars

\* ------------------------------------------------------------------ the map file and its tools
\* The map file is missing, holds a map ("ok"), holds something that is not
\* JSON ("corrupt"), or was opened for writing and not yet written
\* ("truncated": Path.write_text opens with mode "w", then writes).

\* remote stores a tool may find: records with distinct IDs and distinct slugs
RemoteRecords == [id : 1..MaxRecords, slug : RemoteSlugs, title : Titles]
ToolRemotes ==
    {R \in SUBSET RemoteRecords :
        \A r, q \in R : (r.id = q.id \/ r.slug = q.slug) => r = q}

\* map files a tool may find
MapEntry(id, slug, title) ==
    [post_id |-> id, slug |-> slug, url |-> <<"kb">> \o slug, title |-> title, last_synced |-> 0]
ToolMaps ==
    {EmptyMap,
     (<<"AI", "intro">> :> MapEntry(1, <<"intro">>, "Intro")),
     (<<"AI", "intro">> :> MapEntry(1, <<"intro">>, "Intro"))
        @@ (<<"SEO", "basics">> :> MapEntry(2, <<"primer">>, "Primer"))}
ToolMapFiles ==
    {[state |-> "missing", map |-> EmptyMap], [state |-> "corrupt", map |-> EmptyMap]}
    \cup {[state |-> "ok", map |-> m] : m \in ToolMaps}

\* results a finished batch hands to save_mapping_file
ToolResults ==
    {<<>>,
     <<[file |-> <<"AI", "intro">>, status |-> "updated", post_id |-> 1,
        url |-> <<"kb", "intro">>, title |-> "Primer"]>>,
     <<[file |-> <<"AI", "intro">>, status |-> "error", post_id |-> NoId,
        url |-> <<>>, title |-> ""],
       [file |-> <<"SEO", "basics">>, status |-> "created", post_id |-> 2,
        url |-> <<"kb", "primer">>, title |-> "Primer"]>>}

ToolInit ==
    /\ files = InitFiles
    /\ mapfile \in ToolMapFiles
    /\ env \in [remote : ToolRemotes, nextId : {MaxRecords + 1}]
    /\ pc = "idle"
    /\ batch = NoBatch
    /\ clock = 0
    /\ lastCall = NoCall
    /\ fin = NoFin
    /\ killed = NoKilled
    /\ chunking = NoChunking
    /\ search = NoSearch
    /\ tool = NoTool
    /\ textCall = NoText

\* json.loads(mapping_file.read_text()) with no handler around it
JsonRaises(mf) == mf.state # "ok"

Loaded(who, mf, raised) == [valid |-> TRUE, who |-> who, state |-> mf.state, raised |-> raised]

ToolRun(who, args, pcv, done, raised, requested, pending, load) ==
    [who |-> who, args |-> args, pc |-> pcv, done |-> done, raised |-> raised,
     requested |-> requested, wrote |-> FALSE, pending |-> pending, load |-> load,
     matching |-> NoMatching]

\* fetch_all_wp_posts: the records of the pages it got before a page failed
\* (the remote store lists the newest record first; a page holds one record)
FetchOutcomes(R) == {{r \in R : r.id > k} : k \in 0..MaxRecords}

\* mapping_file.write_text(...) has opened the file: its old content is gone
Truncated == [state |-> "truncated", map |-> EmptyMap]

\* rebuild_mapping.py main, up to the opening of the map file for writing: the
\* flags, the load of the map, the fetch of the records (which gives up on a
\* failed page), the matching, the deletion list, the deletes (each may
\* fail), and with --rebuild or --full the new map
RebuildMapping ==
    /\ tool.pc = "idle"
    /\ clock < MaxToolRuns
    /\ clock' = clock + 1
    /\ \E flags \in FlagSets :
          LET args == EffectiveArgs(flags)
              exists == mapfile.state # "missing"
          IN  IF exists /\ JsonRaises(mapfile)
              THEN /\ tool' = ToolRun("rebuild_mapping", args, "idle", TRUE, TRUE, {}, EmptyMap,
                                       Loaded("rebuild_mapping", mapfile, TRUE))
                   /\ UNCHANGED <<mapfile, env>>
              ELSE \E fetched \in FetchOutcomes(env.remote) :
                     LET em == IF exists THEN mapfile.map ELSE EmptyMap
                         match_results == match_posts_to_files(fetched, files, em)
                         to_delete == ToDelete(fetched, match_results)
                         matching == [valid |-> TRUE, existing_mapping |-> em,
                                      match_results |-> match_results,
                                      to_delete |-> ToDeleteList(fetched, match_results),
                                      rematched |-> match_results]
                         requested == IF to_delete # {} /\ DeleteGate(args) THEN to_delete ELSE {}
                         load == Loaded("rebuild_mapping", mapfile, FALSE)
                     IN  \E gone \in SUBSET requested :
                           LET left == {r \in env.remote : r.id \notin gone}
                           IN  /\ env' = [env EXCEPT !.remote = left]
                               /\ IF RebuildGate(args)
                                  THEN \E again \in (IF DeleteGate(args) THEN FetchOutcomes(left)
                                                                           ELSE {fetched}) :
                                         LET rematched == match_posts_to_files(again, files, em)
                                         IN  /\ mapfile' = Truncated
                                             /\ tool' = [ToolRun("rebuild_mapping", args, "writing",
                                                            FALSE, FALSE, requested,
                                                            NewMapping(again, rematched, clock + 1),
                                                            load)
                                                         EXCEPT !.matching = [matching EXCEPT !.rematched = rematched]]
                                  ELSE /\ mapfile' = mapfile
                                       /\ tool' = [ToolRun("rebuild_mapping", args, "idle", TRUE,
                                                           FALSE, requested, EmptyMap, load)
                                                   EXCEPT !.matching = matching]
    /\ UNCHANGED <<files, pc, batch, lastCall, fin, killed, chunking, search, textCall>>

\* save_mapping_file(results), up to the opening of the map file for writing
SaveMappingFile ==
    /\ tool.pc = "idle"
    /\ clock < MaxToolRuns
    /\ clock' = clock + 1
    /\ \E results \in ToolResults :
          tool' = ToolRun("save_mapping_file", {}, "writing", FALSE, FALSE, {},
                          save_mapping_file(results, mapfile, clock + 1).map,
                          Loaded("save_mapping_file", mapfile, FALSE))
    /\ mapfile' = Truncated
    /\ UNCHANGED <<files, env, pc, batch, lastCall, fin, killed, chunking, search, textCall>>

\* write_text writes the serialized map and closes the file
WriteFinish ==
    /\ tool.pc = "writing"
    /\ mapfile' = [state |-> "ok", map |-> tool.pending]
    /\ tool' = [tool EXCEPT !.pc = "idle", !.done = TRUE, !.wrote = TRUE]
    /\ UNCHANGED <<files, env, pc, batch, clock, lastCall, fin, killed, chunking, search, textCall>>

\* cleanup_duplicates.py is run: a delete request for each of its post IDs
CleanupDuplicates ==
    /\ tool.pc = "idle"
    /\ clock < MaxToolRuns
    /\ clock' = clock + 1
    /\ \E gone \in SUBSET (CleanupIds \cap Ids(env)) :
          env' = [env EXCEPT !.remote = {r \in @ : r.id \notin gone}]
    /\ tool' = ToolRun("cleanup_duplicates", {}, "idle", TRUE, FALSE, CleanupIds, EmptyMap,
                        tool.load)
    /\ UNCHANGED <<files, mapfile, pc, batch, lastCall, fin, killed, chunking, search, textCall>>

\* export_redirects_csv reads the map file, at any moment: a missing file
\* ends it with a message, any other file goes to json.load
ExportRedirects ==
    /\ tool' = [tool EXCEPT !.load =
                   Loaded("export_redirects_csv", mapfile,
                          mapfile.state # "missing" /\ JsonRaises(mapfile))]
    /\ UNCHANGED <<syncVars, chunking, search, textCall>>

\* sync_all or sync_file_by_path reads the map file, at any moment, inside
\* try / except json.JSONDecodeError
SyncLoad ==
    /\ \E who \in {"sync_all", "sync_file_by_path"} :
          tool' = [tool EXCEPT !.load = Loaded(who, mapfile, FALSE)]
    /\ UNCHANGED <<syncVars, chunking, search, textCall>>

ToolNext ==
    \/ RebuildMapping
    \/ SaveMappingFile
    \/ WriteFinish
    \/ CleanupDuplicates
    \/ ExportRedirects
    \/ SyncLoad

ToolSpec == ToolInit /\ [][ToolNext]_vars

\* rebuild_mapping.py run on its own: no other writer and no reader of the map file
RebuildNext ==
    \/ RebuildMapping
    \/ WriteFinish

RebuildSpec == ToolInit /\ [][RebuildNext]_vars

\* ------------------------------------------------------------------ sync over a stale map
\* The sync entry points, started when the map file names a record the remote
\* store no longer holds (it was deleted there since the last sync; the time
\* of that is the one tick of the clock that has passed).
StaleInit ==
    /\ files = InitFiles
    /\ mapfile \in {[state |-> "ok", map |-> m] : m \in ToolMaps \ {EmptyMap}}
    /\ env \in {E \in [remote : ToolRemotes, nextId : {MaxRecords + 1}] :
                  \E p \in DOMAIN mapfile.map : mapfile.map[p].post_id \notin Ids(E)}
    /\ pc = "idle"
    /\ batch = NoBatch
    /\ clock = 1
    /\ lastCall = NoCall
    /\ fin = NoFin
    /\ killed = NoKilled
    /\ chunking = NoChunking
    /\ search = NoSearch
    /\ tool = NoTool
    /\ textCall = NoText

StaleSpec == StaleInit /\ [][Next]_vars

\* ------------------------------------------------------------------ chunk_document alone
BoundedSeq(S, n) == UNION {[1..k -> S] : k \in 0..n}

\* a body of at most MaxLines lines is handed to chunk_document
ChunkInit ==
    /\ SyncInit
    /\ chunking \in [body : BoundedSeq(BodyLines, MaxLines), done : {FALSE}, chunks : {<<>>}]
    /\ search = NoSearch
    /\ tool = NoTool
    /\ textCall = NoText

ChunkDocument ==
    /\ ~chunking.done
    /\ chunking' = [chunking EXCEPT !.done = TRUE, !.chunks = chunk_document(chunking.body)]
    /\ UNCHANGED <<syncVars, search, tool, textCall>>

ChunkNext == ChunkDocument

ChunkSpec == ChunkInit /\ [][ChunkNext]_vars

\* ------------------------------------------------------------------ search_knowledge_core alone
\* what index.query returns: at most MaxMatches (top_k) matches with distinct IDs
QueryResults ==
    {ms \in BoundedSeq(Matches, MaxMatches) :
        \A i, j \in DOMAIN ms : i # j => ms[i].id # ms[j].id}

\* a query: the configuration, whether the embedding service or the index
\* fails, and what the index returns otherwise
SearchInit ==
    /\ SyncInit
    /\ chunking = NoChunking
    /\ search \in {q \in [cfg : SearchConfigs, fail : BOOLEAN, matches : QueryResults,
                          done : {FALSE}, result : {NoSearch.result}] :
                      q.fail => q.matches = <<>>}
    /\ tool = NoTool
    /\ textCall = NoText

SearchKnowledgeCore ==
    /\ ~search.done
    /\ search' = [search EXCEPT !.done = TRUE,
                                !.result = search_knowledge_core(search.cfg, search.fail,
                                                                 search.matches)]
    /\ UNCHANGED <<syncVars, chunking, tool, textCall>>

SearchNext == SearchKnowledgeCore

SearchSpec == SearchInit /\ [][SearchNext]_vars

\* ------------------------------------------------------------------ the text functions alone
\* a text of at most MaxChars characters is at hand
TextInit ==
    /\ SyncInit
    /\ chunking = NoChunking
    /\ search = NoSearch
    /\ tool = NoTool
    /\ textCall \in [input : BoundedSeq(Chars, MaxChars), n : {0}, first : {<<>>}, second : {<<>>}]

\* generate_slug(text)
GenerateSlug ==
    /\ textCall.n = 0
    /\ textCall' = [textCall EXCEPT !.n = 1, !.first = kb_generate_slug(textCall.input)]
    /\ UNCHANGED <<syncVars, chunking, search, tool>>

\* generate_slug applied to the slug it returned
GenerateSlugAgain ==
    /\ textCall.n = 1
    /\ textCall' = [textCall EXCEPT !.n = 2, !.second = kb_generate_slug(textCall.first)]
    /\ UNCHANGED <<syncVars, chunking, search, tool>>

SlugNext ==
    \/ GenerateSlug
    \/ GenerateSlugAgain

SlugSpec == TextInit /\ [][SlugNext]_vars

\* convert_wikilink_to_url on the match of \[\[([^\]]+)\]\]: the slug of the link
ConvertWikilink ==
    /\ textCall.n = 0
    /\ textCall.input # <<>>
    /\ textCall' = [textCall EXCEPT !.n = 1, !.first = WikilinkSlug(textCall.input)]
    /\ UNCHANGED <<syncVars, chunking, search, tool>>

\* slug_from_filename on the last path segment of the link's target
SlugFromFilename ==
    /\ textCall.n = 1
    /\ textCall' = [textCall EXCEPT !.n = 2,
                                    !.second = slug_from_filename(WikilinkTarget(textCall.input))]
    /\ UNCHANGED <<syncVars, chunking, search, tool>>

LinkNext ==
    \/ ConvertWikilink
    \/ SlugFromFilename

LinkSpec == TextInit /\ [][LinkNext]_vars

\* a file of at most MaxContentLines lines is at hand (str.split gives at
\* least one line)
ParseInit ==
    /\ SyncInit
    /\ chunking = NoChunking
    /\ search = NoSearch
    /\ tool = NoTool
    /\ textCall \in [input : BoundedSeq(ContentLines, MaxContentLines) \ {<<>>}, n : {0},
                     first : {<<>>}, second : {<<>>}]

\* parse_frontmatter(content)
ParseFrontmatter ==
    /\ textCall.n = 0
    /\ textCall' = [textCall EXCEPT !.n = 1, !.first = parse_frontmatter(textCall.input)]
    /\ UNCHANGED <<syncVars, chunking, search, tool>>

\* sync_file goes on with what parse_frontmatter returned
ExtractMetadata ==
    /\ textCall.n = 1
    /\ textCall' = [textCall EXCEPT !.n = 2, !.second = AfterParse(textCall.first)]
    /\ UNCHANGED <<syncVars, chunking, search, tool>>

ParseNext ==
    \/ ParseFrontmatter
    \/ ExtractMetadata

ParseSpec == ParseInit /\ [][ParseNext]_vars

\* ------------------------------------------------------------------ properties
Terminal == {"created", "updated", "skipped", "error", "dry_run"}
Written == {"created", "updated"}
EntryAt(m, p) == IF p \in DOMAIN m THEN m[p] ELSE NoEntry
CallOps(kinds) == {i \in DOMAIN lastCall.ops : lastCall.ops[i].op \in kinds}
FailedOps(kinds) == {i \in CallOps(kinds) : ~lastCall.ops[i].ok}

\* C1: in a non-dry-run sync_all that directly follows a non-dry-run sync_all
\* (no edit and no other run in between), no file that ended CREATED in the
\* first run ends CREATED again.
C1_NoSecondCreated ==
    (fin.valid /\ ~fin.dry) =>
        \A i \in DOMAIN fin.results :
            fin.results[i].file \in fin.prevCreated => fin.results[i].status # "created"

\* C2: when the map handed to sync_file holds a record ID for the path, the
\* call issues no slug lookup and no create, every update it issues is of that
\* ID, and a non-dry-run call on a file with a body either ends UPDATED with
\* that ID or ends ERROR, whatever the file's title and slug are now.
C2_UpdateByMappedId ==
    (lastCall.valid /\ lastCall.entry.post_id # NoId) =>
        /\ CallOps({"lookup", "create"}) = {}
        /\ \A i \in CallOps({"update"}) : lastCall.ops[i].id = lastCall.entry.post_id
        /\ Cardinality(CallOps({"update"})) <= 1
        /\ (~lastCall.dry /\ lastCall.file.body) =>
              \/ lastCall.result.status = "error"
              \/ /\ lastCall.result.status = "updated"
                 /\ lastCall.result.post_id = lastCall.entry.post_id
                 /\ Cardinality(CallOps({"update"})) = 1

\* C2 witness: a call that ended UPDATED by the mapped ID for a file whose
\* title and slug are no longer those of the map entry
C2_Witness ==
    /\ lastCall.valid
    /\ lastCall.entry.post_id # NoId
    /\ lastCall.result.status = "updated"
    /\ lastCall.file.title # lastCall.entry.title
    /\ SlugOf(lastCall.path, lastCall.file) # lastCall.entry.slug

\* C3: a non-dry-run sync_file on a path without a mapped record ID that ends
\* CREATED or UPDATED has looked the slug up once and issued exactly one record
\* write: an update of a record that had that slug if one existed, a create
\* if none existed.
C3_SlugFallback ==
    (lastCall.valid /\ ~lastCall.dry /\ lastCall.entry.post_id = NoId
       /\ lastCall.result.status \in Written) =>
        /\ Cardinality(CallOps({"lookup"})) = 1
        /\ Cardinality(CallOps({"update", "create"})) = 1
        /\ lastCall.hits # {} =>
              /\ lastCall.result.status = "updated"
              /\ lastCall.result.post_id \in lastCall.hits
        /\ lastCall.hits = {} => lastCall.result.status = "created"

\* C4: when a non-dry-run sync_all has returned to its caller and the caller
\* is done, the map file holds an entry with the record ID, slug, URL and
\* title of every result that is CREATED or UPDATED.
C4_BatchPersistsEntries ==
    (fin.valid /\ ~fin.dry) =>
        \A i \in DOMAIN fin.results :
            fin.results[i].status \in Written =>
                /\ fin.results[i].file \in DOMAIN LoadMapping(mapfile)
                /\ LET e == LoadMapping(mapfile)[fin.results[i].file]
                   IN  /\ e.post_id = fin.results[i].post_id
                       /\ e.url = fin.results[i].url
                       /\ e.title = fin.results[i].title
                       /\ e.slug = SlugOfUrl(fin.results[i].url)
                       /\ e.last_synced = clock

\* C5: a dry-run sync_file issues no remote call, and a dry-run sync_all leaves
\* the map file as it was when the run began.
C5_DryRunNoSideEffects ==
    /\ (lastCall.valid /\ lastCall.dry) => lastCall.ops = <<>>
    /\ (fin.valid /\ fin.dry) => mapfile = fin.before

\* C6: sync_all returns exactly one result per syncable file in scope, each
\* with a terminal status; an ERROR result does not keep the later files from
\* being processed.
C6_OneResultPerFile ==
    fin.valid =>
        /\ Len(fin.results) = Cardinality(Scope(fin.flt))
        /\ {fin.results[i].file : i \in DOMAIN fin.results} = Scope(fin.flt)
        /\ \A i \in DOMAIN fin.results : fin.results[i].status \in Terminal

\* C6 witness: a returned batch whose first result is ERROR and whose second
\* result is a record write
C6_Witness ==
    /\ fin.valid
    /\ Len(fin.results) = 2
    /\ fin.results[1].status = "error"
    /\ fin.results[2].status \in Written

\* C7: after the batch is saved, the map entry of every file that ended ERROR
\* is what it was when the batch began: absent if it was absent, unchanged
\* otherwise.
C7_ErrorLeavesEntry ==
    fin.valid =>
        \A i \in DOMAIN fin.results :
            fin.results[i].status = "error" =>
                /\ (fin.results[i].file \in DOMAIN LoadMapping(mapfile))
                     = (fin.results[i].file \in DOMAIN LoadMapping(fin.before))
                /\ EntryAt(LoadMapping(mapfile), fin.results[i].file)
                     = EntryAt(LoadMapping(fin.before), fin.results[i].file)

\* C7 witness: a saved non-dry-run batch in which a file that had an entry
\* ended ERROR while another file's entry was written
C7_Witness ==
    /\ fin.valid /\ fin.entry = "cli" /\ ~fin.dry
    /\ \E i, j \in DOMAIN fin.results :
          /\ fin.results[i].status = "error"
          /\ fin.results[i].file \in DOMAIN LoadMapping(fin.before)
          /\ fin.results[j].status \in Written

\* C8: a non-dry-run sync_file in which tag resolution, the record create or
\* update, or the vector-index upsert failed ends ERROR.
C8_FailedStepIsError ==
    (lastCall.valid /\ ~lastCall.dry
       /\ FailedOps({"tag_get", "tag_create", "update", "create", "upsert"}) # {}) =>
        lastCall.result.status = "error"

\* C9: when a non-dry-run batch is terminated, the map file holds the entry of
\* every file that had ended CREATED or UPDATED before the termination.
C9_TerminatedBatchPersisted ==
    (killed.valid /\ ~killed.dry) =>
        \A i \in DOMAIN killed.results :
            killed.results[i].status \in Written =>
                /\ killed.results[i].file \in DOMAIN LoadMapping(mapfile)
                /\ LoadMapping(mapfile)[killed.results[i].file].post_id
                     = killed.results[i].post_id

\* C10: no step of the sync path removes a remote record: the set of remote
\* record IDs only grows.
C10_RecordsOnlyGrow == [][Ids(env) \subseteq Ids(env')]_vars

\* C10 witness: a record was updated while the store holds several records
C10_Witness ==
    /\ lastCall.valid
    /\ lastCall.result.status = "updated"
    /\ Cardinality(env.remote) >= 2

\* C11: once a path has a map entry with a record ID, no step of the sync
\* entry points (the batches with their map save included) changes that ID:
\* the path keeps an entry and the entry keeps the ID.
C11_MappedIdImmutable ==
    [][\A p \in DOMAIN mapfile.map :
          mapfile.map[p].post_id # NoId =>
              /\ p \in DOMAIN mapfile'.map
              /\ mapfile'.map[p].post_id = mapfile.map[p].post_id]_vars

\* C11 witness: a saved batch rewrote the entry of a path that already had a
\* record ID (the file was UPDATED after its title was edited): the entry's
\* title is new, the ID is the one the batch began with
C11_Witness ==
    /\ fin.valid /\ fin.entry = "cli" /\ ~fin.dry
    /\ \E i \in DOMAIN fin.results :
          LET p == fin.results[i].file
          IN  /\ fin.results[i].status = "updated"
              /\ p \in DOMAIN fin.before.map
              /\ fin.before.map[p].post_id # NoId
              /\ mapfile.map[p].title # fin.before.map[p].title
              /\ mapfile.map[p].post_id = fin.before.map[p].post_id

\* C14: a sync_file call, from any entry point, on an index file, a
\* folder-marker file, a file on a hidden path or a file with an empty body
\* issues no record create, no record update and no vector-index upsert.
C14_ExcludedNeverWritten ==
    (lastCall.valid /\ (~should_sync_file(lastCall.path) \/ ~lastCall.file.body)) =>
        CallOps({"create", "update", "upsert"}) = {}

\* the headings of a body, the text each is followed by, and the lead text
H2At(body) == {i \in DOMAIN body : IsH2(body[i])}
TextAfter(body, i) ==
    {j \in DOMAIN body : j > i /\ ~IsBlank(body[j]) /\ \A k \in (i + 1)..j : ~IsH2(body[k])}
FullSections(body) == {i \in H2At(body) : TextAfter(body, i) # {}}
HasLead(body) == TextAfter(body, 0) # {}

C20_NoHeadingPlainChunk ==
    chunking.done =>
        /\ (Strip(chunking.body) # <<>> /\ H2At(chunking.body) = {}) =>
               /\ Len(chunking.chunks) = 1
               /\ chunking.chunks[1].chunk_index = 0
               /\ chunking.chunks[1].section_header = ""
               /\ chunking.chunks[1].raw_text = Strip(chunking.body)
        /\ \A i \in DOMAIN chunking.chunks :
               chunking.chunks[i].section_header = "Introduction" =>
                   (i = 1 /\ H2At(chunking.body) # {} /\ HasLead(chunking.body))

\* the documents of a query result and the best score of each
BasesOf(ms) == {base_id(ms[i].id) : i \in DOMAIN ms}
TopScore(ms, b) ==
    CHOOSE x \in {ms[i].score : i \in {k \in DOMAIN ms : base_id(ms[k].id) = b}} :
        \A i \in DOMAIN ms : base_id(ms[i].id) = b => ms[i].score <= x
InTier(fs, b) == {i \in DOMAIN fs : base_id(fs[i].id) = b}
Reported == search.result.high \o search.result.medium

\* C16: when the index answered with matches, the best match of a document
\* is a high-confidence finding iff its score >= the high threshold, a
\* medium-confidence finding iff low threshold <= score < high threshold, and
\* in no tier iff its score < the low threshold; the report has the header of
\* a tier iff the tier has a finding.
C16_TieredByThreshold ==
    (search.done /\ ~search.fail /\ search.matches # <<>>) =>
        LET r == search.result
            hi == search.cfg.high_threshold
            lo == search.cfg.low_threshold
        IN  /\ \A b \in BasesOf(search.matches) :
                   LET x == TopScore(search.matches, b)
                   IN  /\ (InTier(r.high, b) # {}) = (x >= hi)
                       /\ (InTier(r.medium, b) # {}) = (x >= lo /\ x < hi)
                       /\ (InTier(Reported, b) = {}) = (x < lo)
            /\ \A i \in DOMAIN r.high : r.high[i].score >= hi
            /\ \A i \in DOMAIN r.medium : r.medium[i].score >= lo /\ r.medium[i].score < hi
            /\ ("High-Confidence Results" \in Range(r.parts)) = (r.high # <<>>)
            /\ ("Medium-Confidence Results" \in Range(r.parts)) = (r.medium # <<>>)

\* C16 witness: the scores 0.91, 0.62 and 0.50 of three documents under the
\* thresholds 0.70 / 0.55: one high, one medium, one discarded
C16_Witness ==
    /\ search.done
    /\ search.cfg = [high_threshold |-> 70, low_threshold |-> 55]
    /\ {search.matches[i].score : i \in DOMAIN search.matches} = {91, 62, 50}
    /\ Cardinality(BasesOf(search.matches)) = 3
    /\ Len(search.result.high) = 1
    /\ Len(search.result.medium) = 1

\* C17: the report holds at most one finding per document, and it is a match
\* of that document with the highest score: the tier is that of the best
\* match, a weaker chunk of the document is never reported.
C17_OnePerDocument ==
    (search.done /\ search.result.kind = "found") =>
        /\ \A i, j \in DOMAIN Reported :
               base_id(Reported[i].id) = base_id(Reported[j].id) => i = j
        /\ \A i \in DOMAIN Reported :
               /\ \E k \in DOMAIN search.matches : search.matches[k] = Reported[i]
               /\ Reported[i].score = TopScore(search.matches, base_id(Reported[i].id))

\* C17 witness: two chunks of one document, the weaker one returned last and
\* itself above the low threshold; one finding is reported
C17_Witness ==
    /\ search.done
    /\ Len(search.matches) = 2
    /\ base_id(search.matches[1].id) = base_id(search.matches[2].id)
    /\ search.matches[1].score > search.matches[2].score
    /\ search.matches[2].score >= search.cfg.low_threshold
    /\ Len(Reported) = 1

\* C18: search_knowledge_core always returns one of its messages: the
\* "unavailable" message when the index or the embedding service fails, the
\* "no existing intelligence found" message when there is no match, and the
\* "Intelligence Found" report only with a finding in the high or medium tier.
C18_NeverEmptySuccess ==
    search.done =>
        /\ search.result.kind \in {"unavailable", "none_found", "below_threshold", "found"}
        /\ search.fail => search.result.kind = "unavailable"
        /\ (~search.fail /\ search.matches = <<>>) => search.result.kind = "none_found"
        /\ search.result.kind = "found" =>
               /\ search.result.high # <<>> \/ search.result.medium # <<>>
               /\ search.result.parts # <<>>

\* C18 witness: matches came back but none reaches the low threshold: the
\* answer is not the report
C18_Witness ==
    /\ search.done
    /\ ~search.fail
    /\ search.matches # <<>>
    /\ search.result.kind = "below_threshold"

\* C12: no component that loads the map file raises on it: a missing or
\* corrupt file is an empty map to sync_all, sync_file_by_path,
\* save_mapping_file, rebuild_mapping and export_redirects_csv.
C12_LoadNeverRaises ==
    tool.load.valid => ~tool.load.raised

\* C13: whenever a component reads the map file, also while a save is under
\* way, it finds the complete content from before the save or the complete
\* new content, never a file that was opened and not yet written.
C13_SaveAtomicForReader ==
    tool.load.valid => tool.load.state # "truncated"

\* C15: a run of the reconciliation tooling (rebuild_mapping.py,
\* cleanup_duplicates.py) issues a remote delete only when --delete-dupes or
\* --full was given; in analyze mode (--analyze alone or no flag) it issues
\* no delete and does not write the map file; with --rebuild alone it writes
\* the map file and issues no delete.
C15_DeleteOnlyWithFlag ==
    (tool.who \in {"rebuild_mapping", "cleanup_duplicates"}) =>
        /\ tool.requested # {} => ("delete_dupes" \in tool.args \/ "full" \in tool.args)
        /\ tool.args = {"analyze"} =>
               (tool.requested = {} /\ ~tool.wrote /\ tool.pc # "writing")
        /\ (tool.args = {"rebuild"} /\ tool.done /\ ~tool.raised) =>
               (tool.wrote /\ tool.requested = {})

\* C27: a sync_file call that issues a record create has before it a slug
\* lookup that succeeded (a 200 answer) and named no record.
C27_CreateOnlyAfterNegativeLookup ==
    lastCall.valid =>
        \A i \in CallOps({"create"}) :
            \E j \in CallOps({"lookup"}) :
                j < i /\ lastCall.ops[j].ok /\ lastCall.ops[j].id = NoId

\* C28: no two paths of the map file carry the same record ID.
C28_NoSharedRecordId ==
    \A p, q \in DOMAIN mapfile.map :
        (p # q /\ mapfile.map[p].post_id # NoId) =>
            mapfile.map[p].post_id # mapfile.map[q].post_id

\* C30: a save of the map file removes no entry, and changes or adds only
\* entries of paths whose result in the saved batch is CREATED or UPDATED with
\* a record ID.
C30_SaveOnlyTouchesWritten ==
    fin.valid =>
        LET written == {fin.results[i].file :
                          i \in {j \in DOMAIN fin.results :
                                   /\ fin.results[j].status \in Written
                                   /\ fin.results[j].post_id # NoId}}
        IN  /\ DOMAIN fin.before.map \subseteq DOMAIN mapfile.map
            /\ \A p \in DOMAIN mapfile.map \ written :
                   p \in DOMAIN fin.before.map /\ mapfile.map[p] = fin.before.map[p]
            /\ fin.entry = "cli" => written \subseteq DOMAIN mapfile.map

\* C30 witness: a saved batch that left the file of an existing entry out
\* (it was outside the filter) and added the entry of a file it created
C30_Witness ==
    /\ fin.valid /\ fin.entry = "cli" /\ ~fin.dry
    /\ \E p \in DOMAIN fin.before.map, i \in DOMAIN fin.results :
          /\ fin.results[i].status = "created"
          /\ fin.results[i].file # p
          /\ fin.results[i].file \notin DOMAIN fin.before.map
          /\ \A j \in DOMAIN fin.results : fin.results[j].file # p
          /\ mapfile.map[p] = fin.before.map[p]

\* C29: a non-dry-run sync_file on a file with a body whose map entry holds a
\* record ID ends ERROR, with no slug lookup and no create, when the update by
\* that ID fails; it always does when the remote store does not hold the ID;
\* and the saved map keeps the ID of every file that ended ERROR.
C29_FailedUpdateIsError ==
    /\ (lastCall.valid /\ ~lastCall.dry /\ lastCall.file.body
          /\ lastCall.entry.post_id # NoId
          /\ (FailedOps({"update"}) # {} \/ lastCall.entry.post_id \notin Ids(env))) =>
            /\ lastCall.result.status = "error"
            /\ CallOps({"lookup", "create"}) = {}
    /\ fin.valid =>
            \A i \in DOMAIN fin.results :
                (fin.results[i].status = "error"
                   /\ fin.results[i].file \in DOMAIN fin.before.map) =>
                    mapfile.map[fin.results[i].file].post_id
                      = fin.before.map[fin.results[i].file].post_id

\* C29 witness: a saved batch in which the update of a record the remote
\* store no longer holds was tried, the file ended ERROR and its entry kept
\* the ID
C29_Witness ==
    /\ fin.valid /\ fin.entry = "cli" /\ ~fin.dry
    /\ lastCall = NoCall
    /\ \E i \in DOMAIN fin.results :
          LET p == fin.results[i].file
          IN  /\ fin.results[i].status = "error"
              /\ p \in DOMAIN fin.before.map
              /\ fin.before.map[p].post_id \notin Ids(env)
              /\ mapfile.map[p].post_id = fin.before.map[p].post_id
              /\ Cardinality(env.remote) = Cardinality({r \in env.remote : r.id <= MaxRecords})

\* the matchers of match_posts_to_files in the order of the claim
MatcherOrder ==
    <<"mapping", "path_slug", "filename_slug", "partial_slug", "title_match", "frontmatter_slug">>

\* the matchers that accept some file for a record, by their place in the order
Succeeding(post) ==
    {k \in DOMAIN MatcherOrder :
        Candidates(post, files, tool.matching.existing_mapping, MatcherOrder[k]) # {}}

\* C25: in a run of the reconciliation tool every fetched record has one
\* match result; its file and label are those of the first matcher, in the
\* order mapping, path slug, filename slug, partial slug, title, frontmatter
\* slug, that accepts a file, and it has no file and no label iff no matcher
\* accepts one.
C25_FirstMatcherWins ==
    tool.matching.valid =>
        \A M \in {tool.matching.match_results, tool.matching.rematched} :
            \A post \in DOMAIN M :
                /\ (M[post].match_method = "none") <=> (M[post].matched_file = NoPath)
                /\ IF Succeeding(post) = {}
                   THEN M[post].matched_file = NoPath
                   ELSE LET k == CHOOSE i \in Succeeding(post) : \A j \in Succeeding(post) : i <= j
                        IN  /\ M[post].match_method = MatcherOrder[k]
                            /\ M[post].matched_file
                                 \in Candidates(post, files, tool.matching.existing_mapping,
                                                MatcherOrder[k])

\* C25 witness: a record matched by the filename matcher to one file while a
\* later matcher accepts only another file, next to a record no matcher accepts
C25_Witness ==
    /\ tool.matching.valid
    /\ \E post \in DOMAIN tool.matching.match_results :
          /\ tool.matching.match_results[post].match_method = "filename_slug"
          /\ \E k \in Succeeding(post) :
                /\ MatcherOrder[k] = "frontmatter_slug"
                /\ tool.matching.match_results[post].matched_file
                     \notin Candidates(post, files, tool.matching.existing_mapping, MatcherOrder[k])
    /\ \E post \in DOMAIN tool.matching.match_results :
          tool.matching.match_results[post] = Matched(NoPath, "none")

\* the records matched to a file in the first matching of a run, and the
\* files matched by two or more of them
MatchedTo(rel) ==
    {post.id : post \in {r \in DOMAIN tool.matching.match_results :
                            tool.matching.match_results[r].matched_file = rel}}
MultiMatched == {rel \in Paths : Cardinality(MatchedTo(rel)) > 1}
LowestId(S) == CHOOSE i \in S : \A j \in S : i <= j

\* C26 (deletion list): for every file matched by two or more records the
\* deletion list holds all of them but the one with the lowest ID, and no
\* record ID is twice in the list.
C26_DeletionList ==
    (tool.who = "rebuild_mapping" /\ tool.matching.valid) =>
        LET to_delete == tool.matching.to_delete
        IN  /\ \A rel \in MultiMatched :
                  /\ MatchedTo(rel) \ {LowestId(MatchedTo(rel))} \subseteq Range(to_delete)
                  /\ LowestId(MatchedTo(rel)) \notin Range(to_delete)
            /\ \A i, j \in DOMAIN to_delete : to_delete[i] = to_delete[j] => i = j

\* C26 (rebuilt map): no record ID is under two paths of the rebuilt map.
C26_RebuiltMapInjective ==
    (tool.who = "rebuild_mapping" /\ tool.matching.valid /\ RebuildGate(tool.args)) =>
        \A p, q \in DOMAIN tool.pending :
            tool.pending[p].post_id = tool.pending[q].post_id => p = q

\* C26: in a run of rebuild_mapping.py, for every file matched by two or more
\* records the deletion list holds all of them but the one with the lowest
\* ID and the rebuilt map gives the file that lowest-ID record; no record ID
\* is twice in the deletion list, no record of the rebuilt map is on the
\* deletion list, and no record ID is under two paths of the rebuilt map.
C26_KeepLowestId ==
    /\ C26_DeletionList
    /\ C26_RebuiltMapInjective
    /\ (tool.who = "rebuild_mapping" /\ tool.matching.valid /\ RebuildGate(tool.args)) =>
          /\ \A rel \in MultiMatched :
                /\ rel \in DOMAIN tool.pending
                /\ tool.pending[rel].post_id = LowestId(MatchedTo(rel))
          /\ \A rel \in DOMAIN tool.pending :
                tool.pending[rel].post_id \notin Range(tool.matching.to_delete)

\* the lines that consist of three hyphens and optional trailing whitespace,
\* and the places of such lines after the first line of the file at hand
ExactDelimiters == {"---", "--- "}
ClosingPlaces == {i \in 2..Len(textCall.input) : textCall.input[i] \in ExactDelimiters}
FirstClosing == CHOOSE i \in ClosingPlaces : \A j \in ClosingPlaces : i <= j
Between == SubSeq(textCall.input, 2, FirstClosing - 1)
Delimited == textCall.input[1] \in ExactDelimiters /\ ClosingPlaces # {}

\* C21: for a file that opens with a delimiter line, parse_frontmatter takes
\* as closing delimiter the first later line that is three hyphens plus
\* optional trailing whitespace (never a line with other text around the
\* hyphens); it hands YAML exactly the lines between, and when they parse
\* the metadata is their mapping and the body the lines after the closing
\* delimiter, trimmed.
C21_ClosingDelimiter ==
    (textCall.n >= 1 /\ Delimited) =>
        /\ textCall.first.end_index = FirstClosing
        /\ textCall.first.frontmatter_lines = Between
        /\ yaml_safe_load(Between).kind # "error" =>
              /\ textCall.first.frontmatter.keys = yaml_safe_load(Between).keys
              /\ textCall.first.body
                   = TrimLines(SubSeq(textCall.input, FirstClosing + 1, Len(textCall.input)))

\* C21 witness: a comment line with three hyphens in it stands between the
\* delimiters, a second delimiter line follows the closing one, and the
\* body is not empty
C21_Witness ==
    /\ textCall.n >= 1
    /\ Delimited
    /\ "# --- Section ---" \in Range(Between)
    /\ Cardinality(ClosingPlaces) >= 2
    /\ textCall.first.end_index = FirstClosing
    /\ textCall.first.body # <<>>
    /\ textCall.first.body # textCall.input

\* C22: parse_frontmatter always returns a mapping as metadata; for a file
\* without opening delimiter, without closing delimiter, or with a block
\* that is no key-value data it returns the empty mapping and the text
\* unchanged; sync_file does not end ERROR on what it returned.
C22_AlwaysMapping ==
    /\ textCall.n >= 1 =>
          /\ textCall.first.frontmatter.kind = "mapping"
          /\ (~Delimited \/ yaml_safe_load(Between).kind \in {"error", "scalar"}) =>
                /\ textCall.first.frontmatter = EmptyDict
                /\ textCall.first.body = textCall.input
    /\ textCall.n = 2 => textCall.second # "error"

\* C23: generate_slug returns only characters of [a-z0-9-], with no hyphen
\* at either end and no two hyphens in a row, and applied to its own result
\* it returns that result.
C23_SlugNormalised ==
    /\ textCall.n >= 1 =>
          LET slug == textCall.first
          IN  /\ \A i \in DOMAIN slug : slug[i] \in {"m", "d", "1", "-"}
              /\ slug # <<>> => (slug[1] # "-" /\ slug[Len(slug)] # "-")
              /\ \A i \in 1..(Len(slug) - 1) : ~(slug[i] = "-" /\ slug[i + 1] = "-")
    /\ textCall.n = 2 => textCall.second = textCall.first

\* C23 witness: a text with an upper-case letter and a dot followed by
\* whitespace, slugged twice, whose slug has a hyphen inside
C23_Witness ==
    /\ textCall.n = 2
    /\ "M" \in Range(textCall.input)
    /\ \E i \in 1..(Len(textCall.input) - 1) :
          textCall.input[i] = "." /\ textCall.input[i + 1] = " "
    /\ "-" \in Range(textCall.first)
    /\ textCall.second = textCall.first

\* C24: the slug convert_wikilink_to_url puts into the link is
\* slug_from_filename of the last path segment of the link's target.
C24_LinkSlugIsFilenameSlug ==
    textCall.n = 2 => textCall.first = textCall.second

====
